---- MODULE Spec2Model ----
(***************************************************************************)
(* State-machine model of tlo-vote-tally.py: the page fetcher lxmlize, the *)
(* bill discoverer get_chamber_bills, the generator scrape_chamber, the    *)
(* writer write_data and the entry point main.                             *)
(*                                                                         *)
(* Text that the code matches with regular expressions (URLs, dates) is a  *)
(* sequence of one-character strings.  The web site is the environment: a  *)
(* fixed table Web from bill URL to the response the server gives, and a   *)
(* listing page chosen at Init.  Link targets are the values `//@href`     *)
(* yields after make_links_absolute, which carry no line breaks.           *)
(***************************************************************************)
EXTENDS Integers, Sequences, FiniteSets, TLC

\* ------------------------------------------------------------------ bounds
MaxLinks == 3      \* hyperlinks on a listing page
MaxRuns == 2       \* program executions against the same destination file

\* ------------------------------------------------------------- text helpers
Digits == {"0", "1", "2", "3", "4", "5", "6", "7", "8", "9"}
Whitespace == {" ", "\t", "\n", "\r"}

SubStr(s, a, b) == [k \in 1..(b - a + 1) |-> s[a + k - 1]]

AllDigits(s, a, b) == \A k \in a..b : s[k] \in Digits

\* `$` of a Python regex: the end of the string, or just before a final "\n".
AtDollar(s, e) == \/ e = Len(s)
                  \/ e = Len(s) - 1 /\ s[Len(s)] = "\n"

\* [SH]B\d+$ matched with its first character at position p.
BillPatternAt(s, p) ==
    /\ p + 2 <= Len(s)
    /\ s[p] \in {"S", "H"}
    /\ s[p + 1] = "B"
    /\ \E e \in (p + 2)..Len(s) : AllDigits(s, p + 2, e) /\ AtDollar(s, e)

\* End of the (greedy) digit run of a match that starts at p.
BillPatternEnd(s, p) ==
    CHOOSE e \in (p + 2)..Len(s) :
        /\ AllDigits(s, p + 2, e) /\ AtDollar(s, e)
        /\ \A f \in (e + 1)..Len(s) : ~(AllDigits(s, p + 2, f) /\ AtDollar(s, f))

\* re.match(r'.*=[SH]B\d+$', url): `.` matches anything but "\n".
IsBillLink_unanchored(url) ==
    \E i \in 1..Len(url) :
        /\ \A j \in 1..(i - 1) : url[j] # "\n"
        /\ url[i] = "="
        /\ i + 3 <= Len(url)
        /\ url[i + 1] \in {"S", "H"}
        /\ url[i + 2] = "B"
        /\ url[i + 3] \in Digits
IsBillLink(url) ==
    \E i \in 1..Len(url) :
        /\ \A j \in 1..(i - 1) : url[j] # "\n"
        /\ url[i] = "="
        /\ BillPatternAt(url, i + 1)

\* re.search(r'[SH]B\d+$', url): the leftmost match, "None" when there is none.
SearchBill(url) ==
    IF \E p \in 1..Len(url) : BillPatternAt(url, p)
    THEN LET p == CHOOSE q \in 1..Len(url) :
                      /\ BillPatternAt(url, q)
                      /\ \A r \in 1..(q - 1) : ~BillPatternAt(url, r)
         IN  SubStr(url, p, BillPatternEnd(url, p))
    ELSE <<"None">>

\* str.strip(): drop leading and trailing whitespace.
RECURSIVE LStrip(_)
LStrip(s) == IF s # <<>> /\ Head(s) \in Whitespace THEN LStrip(Tail(s)) ELSE s
RECURSIVE RStrip(_)
RStrip(s) == IF s # <<>> /\ s[Len(s)] \in Whitespace
             THEN RStrip(SubSeq(s, 1, Len(s) - 1)) ELSE s
Strip(s) == RStrip(LStrip(s))

SeqsUpTo(S, n) == UNION {[1..k -> S] : k \in 0..n}

\* ---------------------------------------------------------------- scenario
\* "single": one execution of the program against a site whose listing page
\* has up to MaxLinks links.  "repeated": up to MaxRuns executions that
\* append to the same destination, against a site with a short listing page.
VARIABLE scenario

RunCap == IF scenario = "single" THEN 1 ELSE MaxRuns

\* ------------------------------------------------------------- the web site
\* Link targets that occur on listing pages.
uHB1 == <<"u", "=", "H", "B", "1">>
uSB20 == <<"u", "=", "S", "B", "2", "0">>
uHB3 == <<"u", "=", "H", "B", "3">>
uHB1SB7 == <<"u", "=", "H", "B", "1", "=", "S", "B", "7">>
uHCR12 == <<"u", "=", "H", "C", "R", "1", "2">>
uHB == <<"u", "=", "H", "B">>
uHB1x == <<"u", "=", "H", "B", "1", "x">>
uHB1eqx == <<"u", "=", "H", "B", "1", "=", "x">>
noEqHB1 == <<"u", "H", "B", "1">>
Hrefs == {uHB1, uSB20, uHB3, uHB1SB7, uHCR12, uHB, uHB1x, uHB1eqx, noEqHB1}

\* The listing pages the site may serve in the current scenario.
SiteHrefs == IF scenario = "single" THEN Hrefs ELSE {uHB1, uSB20, uHB3, uHCR12}
LinkCap == IF scenario = "single" THEN MaxLinks ELSE 2

\* A vote row as the three XPath queries of scrape_chamber see it: each query
\* yields a list, empty when the cell, anchor or text is absent.
rowA == [link |-> <<"http://j/1">>, type |-> <<"3rd Reading">>,
         date |-> <<<<" ", "5", "/", "1", " ">>>>]
rowB == [link |-> <<"http://j/2">>, type |-> <<"2nd Reading">>,
         date |-> <<<<"5", "/", "2", "\n">>>>]
rowNoLink == [rowA EXCEPT !.link = <<>>]
rowNoType == [rowA EXCEPT !.type = <<>>]
rowNoDate == [rowA EXCEPT !.date = <<>>]

Body(hr, hou, sen) == [empty |-> FALSE, hrefs |-> hr, houvote |-> hou, senvote |-> sen]
EmptyBody == [empty |-> TRUE, hrefs |-> <<>>, houvote |-> <<>>, senvote |-> <<>>]

ListingPages == {Body(hr, <<>>, <<>>) : hr \in SeqsUpTo(SiteHrefs, LinkCap)}

\* The URL of line 42, kept as the pieces the f-string joins.
ListingUrl(session, token) == <<"Report.aspx?LegSess=", session, "&ID=", token>>
IsListingUrl(url) == Len(url) = 4 /\ url[1] = "Report.aspx?LegSess="

\* What the server may answer for a URL: [status, text].  The pages of HB1
\* and SB20 are well formed; HB3 is served broken in one of several ways;
\* any other URL gets an error page with status 404 and no vote rows.
Served(url) ==
    IF IsListingUrl(url)
    THEN {[status |-> 200, text |-> pg] : pg \in ListingPages}
    ELSE IF url = uHB1
    THEN {[status |-> 200, text |-> Body(<<>>, <<rowA>>, <<>>)]}
    ELSE IF url = uSB20
    THEN {[status |-> 200, text |-> Body(<<>>, <<rowB>>, <<rowB, rowA>>)]}
    ELSE IF url = uHB3
    THEN {[status |-> 200, text |-> Body(<<>>, <<rowA, rowNoDate>>, <<rowB>>)],
          [status |-> 200, text |-> Body(<<>>, <<rowNoType>>, <<>>)],
          [status |-> 200, text |-> Body(<<>>, <<rowA>>, <<rowB, rowNoLink>>)],
          [status |-> 200, text |-> EmptyBody],
          [status |-> 404, text |-> EmptyBody]}
    ELSE {[status |-> 404, text |-> Body(<<>>, <<>>, <<>>)]}

\* ------------------------------------------------------------ scrape_chamber
\* record.xpath(...)[0] raises IndexError on an empty list.
RowOk(r) == r.link # <<>> /\ r.type # <<>> /\ r.date # <<>>

VoteRecord(r) == [date |-> Strip(r.date[1]), source |-> r.link[1], type |-> r.type[1]]

\* One of the two extraction loops (lines 70-74, 75-79).
ExtractRows_skip(rows) ==
    [ok |-> TRUE, data |-> [k \in 1..Len(SelectSeq(rows, RowOk)) |->
                               VoteRecord(SelectSeq(rows, RowOk)[k])]]
ExtractRows(rows) ==
    IF \A k \in 1..Len(rows) : RowOk(rows[k])
    THEN [ok |-> TRUE, data |-> [k \in 1..Len(rows) |-> VoteRecord(rows[k])]]
    ELSE [ok |-> FALSE, data |-> <<>>]

\* Lines 70-79 run to the end without an IndexError.
ExtractOk(pg) == ExtractRows(pg.houvote).ok /\ ExtractRows(pg.senvote).ok

\* Lines 65-85: the record {bill: {...}} of one bill page.
DataRow(bill, pg) ==
    [bill |-> bill,
     lower_votes |-> Len(pg.houvote),
     upper_votes |-> Len(pg.senvote),
     lower |-> ExtractRows(pg.houvote).data,
     upper |-> ExtractRows(pg.senvote).data]

\* --------------------------------------------------------------- write_data
HeaderFull == [kind |-> "header", cols |-> <<"bill_id", "chamber", "date", "journal">>]
HeaderSummary == [kind |-> "header", cols |-> <<"bill_id", "lower_votes", "upper_votes">>]
IsHeader(r) == r.kind = "header"

FullRow(bill, chamber, rec) ==
    [kind |-> "full", bill_id |-> bill, chamber |-> chamber,
     date |-> rec.date, journal |-> rec.source]

\* Lines 97-106: the rows of one record in full mode.
FullRows_houseonly(v) == [k \in 1..Len(v.lower) |-> FullRow(v.bill, "house", v.lower[k])]
FullRows(v) ==
    [k \in 1..Len(v.lower) |-> FullRow(v.bill, "house", v.lower[k])]
    \o [k \in 1..Len(v.upper) |-> FullRow(v.bill, "senate", v.upper[k])]

\* Lines 111-113: the row of one record in summary mode.
ShortRows(v) ==
    <<[kind |-> "summary", bill_id |-> v.bill,
       lower_votes |-> v.lower_votes, upper_votes |-> v.upper_votes]>>

RecordRows(v, isFull) == IF isFull THEN FullRows(v) ELSE ShortRows(v)
Headers(isFull) == IF isFull THEN HeaderFull ELSE HeaderSummary

\* open(file, 'a'): the content already in the destination stays.
OpenAppend_truncate(f) == <<>>
OpenAppend(f) == f

\* ------------------------------------------------------------------- state
VARIABLES
    file,        \* rows of the destination file, kept across runs
    runs,        \* program executions started so far
    w_calls,     \* invocations of write_data so far (history)
    w_rows,      \* data rows handed to writer.writerow so far (history)
    entry,       \* how the current run was started: "none", "main", "call", "lxmlize"
    pc,          \* position of the single thread of control
    err,         \* the exception that ended the run, "none" otherwise
    out,         \* phase messages printed by the current run
    bill_urls,   \* main: result of get_chamber_bills
    full,        \* write_data: the mode flag
    gi,          \* scrape_chamber: index of the URL its loop is at (0: not started)
    bill_votes,  \* scrape_chamber: the records appended at line 86
    row,         \* write_data: the record its loop holds
    lx_pc,       \* lxmlize: "idle", "get", "retry_ssl", "retry_conn", "got", "returned", "raised"
    lx_url,      \* lxmlize: url
    lx_raise,    \* lxmlize: raise_exceptions
    lx_log,      \* lxmlize: outcome of each requests.get of the call (history)
    lx_exc,      \* lxmlize: the exception leaving the call
    response,    \* lxmlize: [state, status, text]
    page         \* lxmlize: the document returned

vars == <<scenario, file, runs, w_calls, w_rows, entry, pc, err, out, bill_urls, full, gi,
          bill_votes, row, lx_pc, lx_url, lx_raise, lx_log, lx_exc, response, page>>

lxvars == <<lx_pc, lx_url, lx_raise, lx_log, lx_exc, response, page>>
runvars == <<entry, pc, err, bill_urls, full, gi, bill_votes, row>>
filevars == <<scenario, file, w_calls, w_rows>>

NoResponse == [state |-> "none", status |-> 0, text |-> EmptyBody]
NoPage == [parsed |-> FALSE, resolved |-> FALSE, hrefs |-> <<>>, houvote |-> <<>>, senvote |-> <<>>]
NoRow == [bill |-> <<>>, lower_votes |-> 0, upper_votes |-> 0, lower |-> <<>>, upper |-> <<>>]
NoUrl == <<>>

\* Lines 38-41.
chamber_map == [senate |-> "senatefiled", house |-> "housefiled"]

Chambers == {"house", "senate", "joint"}
Sessions == {"85R"}
GetOutcomes == {"ok", "SSLError", "ConnectionError", "RequestException"}

Start ==
    /\ file = <<>> /\ runs = 0 /\ w_calls = 0 /\ w_rows = 0
    /\ entry = "none" /\ pc = "idle" /\ err = "none" /\ out = <<>>
    /\ bill_urls = <<>> /\ full = FALSE /\ gi = 0 /\ bill_votes = <<>> /\ row = NoRow
    /\ lx_pc = "idle" /\ lx_url = NoUrl /\ lx_raise = FALSE /\ lx_log = <<>>
    /\ lx_exc = "none" /\ response = NoResponse /\ page = NoPage

\* A new process starts with fresh locals; only the destination file persists.
Init == scenario = "single" /\ Start
InitRepeated == scenario = "repeated" /\ Start

CanStart == pc \in {"idle", "done", "error"} /\ runs < RunCap

FreshLocals ==
    /\ bill_urls' = <<>> /\ full' = FALSE /\ gi' = 0
    /\ bill_votes' = <<>> /\ row' = NoRow

LxIdle ==
    /\ lx_pc' = "idle" /\ lx_url' = NoUrl /\ lx_raise' = FALSE /\ lx_log' = <<>>
    /\ lx_exc' = "none" /\ response' = NoResponse /\ page' = NoPage

\* Entry into lxmlize(url, raise_exceptions): control is at line 16.
LxCall(url, raise) ==
    /\ lx_pc' = "get" /\ lx_url' = url /\ lx_raise' = raise /\ lx_log' = <<>>
    /\ lx_exc' = "none" /\ response' = NoResponse /\ page' = NoPage

\* -------------------------------------------------------------------- main
\* Lines 117-127: parse_args() is never called and an ArgumentParser has no
\* attribute `chamber`, so evaluating parser.chamber raises AttributeError.
Main ==
    /\ CanStart
    /\ runs' = runs + 1
    /\ entry' = "main"
    /\ out' = <<"Starting...">>
    /\ FreshLocals
    /\ pc' = "error" /\ err' = "AttributeError"
    /\ LxIdle
    /\ UNCHANGED filevars

\* ---------------------------------------------------------- get_chamber_bills
\* Lines 37-43 as called from line 127 with a chamber and a session.
GetChamberBills ==
    /\ CanStart
    /\ runs' = runs + 1
    /\ entry' = "call"
    /\ out' = <<"Getting">>
    /\ FreshLocals
    /\ \E chamber \in Chambers, session \in Sessions :
          IF chamber \in DOMAIN chamber_map
          THEN /\ pc' = "disc_fetch" /\ err' = "none"
               /\ LxCall(ListingUrl(session, chamber_map[chamber]), FALSE)
          ELSE /\ pc' = "error" /\ err' = "KeyError"
               /\ LxIdle
    /\ UNCHANGED filevars

\* ----------------------------------------------------------------- lxmlize
\* Where control goes after the requests.get of line 16: the try block has
\* handlers for SSLError (line 17) and ConnectionError (line 21) only.
AfterGet_nohandler(o) ==
    IF o = "ok" THEN "got"
    ELSE IF o = "SSLError" THEN "retry_ssl"
    ELSE "raised"
AfterGet(o) ==
    IF o = "ok" THEN "got"
    ELSE IF o = "SSLError" THEN "retry_ssl"
    ELSE IF o = "ConnectionError" THEN "retry_conn"
    ELSE "raised"

\* Where control goes after the requests.get of line 20 or line 24: an
\* exception raised inside a handler is not handled by its sibling handlers.
AfterRetry_again(o) ==
    IF o = "ok" THEN "got"
    ELSE IF o = "SSLError" THEN "retry_ssl"
    ELSE IF o = "ConnectionError" THEN "retry_conn"
    ELSE "raised"
AfterRetry(o) == IF o = "ok" THEN "got" ELSE "raised"

\* The messages of lines 18-19 and 22.
Notice(next) ==
    IF next = "retry_ssl"
    THEN <<"lxmlize() failed due to SSL error, trying an unverified requests.get()">>
    ELSE IF next = "retry_conn" THEN <<"Request limit exceeded. Waiting 10 seconds.">>
    ELSE <<>>

\* The effect of one requests.get whose outcome is o and that leads to `next`.
Request(o, next) ==
    /\ lx_log' = Append(lx_log, o)
    /\ lx_pc' = next
    /\ out' = out \o Notice(next)
    /\ lx_exc' = IF next = "raised" THEN o ELSE "none"
    /\ response' = IF o = "ok" THEN [NoResponse EXCEPT !.state = "open"] ELSE response
    /\ UNCHANGED <<lx_url, lx_raise, page>>

\* Line 16.
LxGet ==
    /\ lx_pc = "get"
    /\ \E o \in GetOutcomes : Request(o, AfterGet(o))
    /\ UNCHANGED <<filevars, runs, runvars>>

\* Lines 17-20: the unverified request after an SSLError.
LxRetrySSL ==
    /\ lx_pc = "retry_ssl"
    /\ \E o \in GetOutcomes : Request(o, AfterRetry(o))
    /\ UNCHANGED <<filevars, runs, runvars>>

\* Lines 21-24: sleep(10), then the second request after a ConnectionError.
LxRetryConn ==
    /\ lx_pc = "retry_conn"
    /\ \E o \in GetOutcomes : Request(o, AfterRetry(o))
    /\ UNCHANGED <<filevars, runs, runvars>>

\* Lines 25-31.  What the server answered (status and body) is read here.
\* raise_for_status (line 26) and lxml.html.fromstring on an empty body
\* (line 28) raise before response.close() (line 30) is reached.
LxFinish ==
    /\ lx_pc = "got"
    /\ \E r \in Served(lx_url) :
          IF lx_raise /\ r.status >= 400
          THEN /\ lx_pc' = "raised" /\ lx_exc' = "HTTPError"
               /\ response' = [state |-> "open", status |-> r.status, text |-> r.text]
               /\ page' = page
          ELSE IF r.text.empty
          THEN /\ lx_pc' = "raised" /\ lx_exc' = "ParserError"
               /\ response' = [state |-> "open", status |-> r.status, text |-> r.text]
               /\ page' = page
          ELSE /\ lx_pc' = "returned" /\ lx_exc' = "none"
               /\ page' = [parsed |-> TRUE, resolved |-> TRUE,
                           hrefs |-> r.text.hrefs,
                           houvote |-> r.text.houvote,
                           senvote |-> r.text.senvote]
               /\ response' = [state |-> "closed", status |-> r.status, text |-> r.text]
    /\ UNCHANGED <<lx_url, lx_raise, lx_log>>
    /\ UNCHANGED <<filevars, runs, runvars, out>>

\* lxmlize called on its own, with either value of raise_exceptions.
CallLxmlize ==
    /\ CanStart
    /\ runs' = runs + 1
    /\ entry' = "lxmlize" /\ pc' = "lx_direct" /\ err' = "none" /\ out' = <<>>
    /\ FreshLocals
    /\ \E url \in {uHB1, uHB3, uHB1SB7}, raise \in BOOLEAN : LxCall(url, raise)
    /\ UNCHANGED filevars

\* The direct call ends: with the document, or with the exception.
LxDirectEnd ==
    /\ pc = "lx_direct"
    /\ lx_pc \in {"returned", "raised"}
    /\ pc' = IF lx_pc = "returned" THEN "done" ELSE "error"
    /\ err' = lx_exc
    /\ LxIdle
    /\ UNCHANGED <<entry, out, bill_urls, full, gi, bill_votes, row>>
    /\ UNCHANGED <<filevars, runs>>

\* An exception leaving lxmlize is handled by neither get_chamber_bills,
\* scrape_chamber, write_data nor main: the run ends with it.
Propagate ==
    /\ pc \in {"disc_fetch", "g_fetch"}
    /\ lx_pc = "raised"
    /\ pc' = "error" /\ err' = lx_exc
    /\ LxIdle
    /\ UNCHANGED <<entry, out, bill_urls, full, gi, bill_votes, row>>
    /\ UNCHANGED <<filevars, runs>>

\* The loop of lines 46-49 over the list `//@href` gave.
RECURSIVE Links(_)
Links(hrefs) ==
    IF hrefs = <<>> THEN <<>>
    ELSE IF IsBillLink(Head(hrefs)) THEN <<Head(hrefs)>> \o Links(Tail(hrefs))
    ELSE Links(Tail(hrefs))

\* Lines 45-51 and the assignment of line 127: the frame of lxmlize is gone,
\* the page of get_chamber_bills is kept until write_data is entered.
Discover ==
    /\ pc = "disc_fetch"
    /\ lx_pc = "returned"
    /\ bill_urls' = Links(page.hrefs)
    /\ out' = Append(out, "Found")
    /\ pc' = "discovered"
    /\ lx_pc' = "idle" /\ lx_url' = NoUrl /\ lx_raise' = FALSE /\ lx_log' = <<>>
    /\ lx_exc' = "none" /\ response' = NoResponse /\ page' = page
    /\ UNCHANGED <<entry, err, full, gi, bill_votes, row>>
    /\ UNCHANGED <<filevars, runs>>

\* ------------------------------------------------- write_data, scrape_chamber
\* Lines 128-129 and 91-95 / 108-109: scrape_chamber(...) only creates the
\* generator; write_data opens the destination for append and writes the header.
WriteOpen ==
    /\ pc = "discovered"
    /\ \E f \in BOOLEAN :
          /\ full' = f
          /\ file' = Append(OpenAppend(file), Headers(f))
    /\ w_calls' = w_calls + 1
    /\ pc' = "w_next"
    /\ LxIdle
    /\ UNCHANGED <<scenario, w_rows, runs, entry, err, out, bill_urls, gi, bill_votes, row>>

\* Line 96 / 110 asks the generator for its next record and the generator runs
\* lines 59-64 (first time) or 61-64: it calls lxmlize on the next URL.
GenResume ==
    /\ pc = "w_next"
    /\ gi + 1 <= Len(bill_urls)
    /\ gi' = gi + 1
    /\ out' = IF gi = 0 THEN Append(out, "Scraping") ELSE out
    /\ IF SearchBill(bill_urls[gi + 1]) = <<"None">>
       THEN pc' = "error" /\ err' = "AttributeError" /\ LxIdle
       ELSE pc' = "g_fetch" /\ err' = err /\ LxCall(bill_urls[gi + 1], FALSE)
    /\ UNCHANGED <<filevars, runs, entry, bill_urls, full, bill_votes, row>>

\* Lines 65-87 when no row raises: the record is appended to bill_votes and
\* yielded; the generator is suspended and write_data holds the record.
GenYield_eager ==
    /\ pc = "g_fetch"
    /\ lx_pc = "returned"
    /\ ExtractOk(page)
    /\ row' = DataRow(SearchBill(lx_url), page)
    /\ bill_votes' = Append(bill_votes, row')
    /\ pc' = "w_next"
    /\ LxIdle
    /\ UNCHANGED <<filevars, runs, entry, err, out, bill_urls, full, gi>>
GenYield ==
    /\ pc = "g_fetch"
    /\ lx_pc = "returned"
    /\ ExtractOk(page)
    /\ row' = DataRow(SearchBill(lx_url), page)
    /\ bill_votes' = Append(bill_votes, row')
    /\ pc' = "w_row"
    /\ LxIdle
    /\ UNCHANGED <<filevars, runs, entry, err, out, bill_urls, full, gi>>

\* Lines 70-79 when a row lacks a field: the IndexError leaves the generator,
\* the loop of write_data, write_data (line 114 is skipped) and the run.
GenExtractFail_skip ==
    /\ pc = "g_fetch"
    /\ lx_pc = "returned"
    /\ ~ExtractOk(page)
    /\ pc' = "w_next" /\ err' = err
    /\ LxIdle
    /\ UNCHANGED <<filevars, runs, entry, out, bill_urls, full, gi, bill_votes, row>>
GenExtractFail ==
    /\ pc = "g_fetch"
    /\ lx_pc = "returned"
    /\ ~ExtractOk(page)
    /\ pc' = "error" /\ err' = "IndexError"
    /\ LxIdle
    /\ UNCHANGED <<filevars, runs, entry, out, bill_urls, full, gi, bill_votes, row>>

\* Lines 97-106 / 111-113: the rows of the record the loop holds.
WriteRow ==
    /\ pc = "w_row"
    /\ file' = file \o RecordRows(row, full)
    /\ w_rows' = w_rows + Len(RecordRows(row, full))
    /\ pc' = "w_next"
    /\ UNCHANGED <<scenario, w_calls, runs, entry, err, out, bill_urls, full, gi, bill_votes, row>>
    /\ UNCHANGED lxvars

\* The generator's loop is over (StopIteration): line 114 closes the file,
\* write_data returns and line 130 prints 'Finished.'.
WriteClose ==
    /\ pc = "w_next"
    /\ gi + 1 > Len(bill_urls)
    /\ out' = Append(IF gi = 0 THEN Append(out, "Scraping") ELSE out, "Finished.")
    /\ pc' = "done"
    /\ UNCHANGED <<filevars, runs, entry, err, bill_urls, full, gi, bill_votes, row>>
    /\ UNCHANGED lxvars

Next ==
    \/ Main
    \/ GetChamberBills
    \/ CallLxmlize
    \/ LxGet
    \/ LxRetrySSL
    \/ LxRetryConn
    \/ LxFinish
    \/ LxDirectEnd
    \/ Propagate
    \/ Discover
    \/ WriteOpen
    \/ GenResume
    \/ GenYield
    \/ GenExtractFail
    \/ WriteRow
    \/ WriteClose

Spec == Init /\ [][Next]_vars

SpecRepeated == InitRepeated /\ [][Next]_vars

\* ================================================================== claims
RECURSIVE Flatten(_)
Flatten(ss) == IF ss = <<>> THEN <<>> ELSE Head(ss) \o Flatten(Tail(ss))
IsPrefix(a, b) == Len(a) <= Len(b) /\ SubSeq(b, 1, Len(a)) = a
Range(q) == {q[k] : k \in 1..Len(q)}
Terminated == pc \in {"done", "error"}
NetworkErrors == {"SSLError", "ConnectionError", "RequestException"}

\* The part of a link target after its last "=", <<"-">> when it has no "=".
TrailingSegment(url) ==
    IF \E i \in 1..Len(url) : url[i] = "="
    THEN LET last == CHOOSE i \in 1..Len(url) :
                         url[i] = "=" /\ \A j \in (i + 1)..Len(url) : url[j] # "="
         IN  SubStr(url, last + 1, Len(url))
    ELSE <<"-">>

\* "SB" or "HB" followed by one or more digits and nothing else.
IsBillId(seg) ==
    /\ Len(seg) >= 3
    /\ seg[1] \in {"S", "H"}
    /\ seg[2] = "B"
    /\ \A k \in 3..Len(seg) : seg[k] \in Digits

TrailingIsBill(url) == IsBillId(TrailingSegment(url))

\* The rows of a list of records, in order.
RowsOf(records, isFull) ==
    Flatten([k \in 1..Len(records) |-> RecordRows(records[k], isFull)])

\* Every answer the server gives for the URL makes the fetch or the extraction fail.
Broken(url) ==
    \A r \in Served(url) :
        \/ r.text.empty
        \/ \E k \in 1..Len(r.text.houvote) : ~RowOk(r.text.houvote[k])
        \/ \E k \in 1..Len(r.text.senvote) : ~RowOk(r.text.senvote[k])

\* Some answer of the server for the URL has a vote row that lacks a field.
HasBadRow(url) ==
    \E r \in Served(url) :
        \/ \E k \in 1..Len(r.text.houvote) : ~RowOk(r.text.houvote[k])
        \/ \E k \in 1..Len(r.text.senvote) : ~RowOk(r.text.senvote[k])

\* The records an undisturbed run yields for a list of URLs: those of the
\* URLs before the first broken one.
RECURSIVE RecordsOf(_)
RecordsOf(urls) ==
    IF urls = <<>> \/ Broken(Head(urls)) THEN <<>>
    ELSE <<DataRow(TrailingSegment(Head(urls)), (CHOOSE r \in Served(Head(urls)) : TRUE).text)>>
         \o RecordsOf(Tail(urls))

\* C1: get_chamber_bills returns exactly the hyperlink targets of the listing
\* page whose trailing segment (after the last "=") is SB or HB followed by
\* digits only, in page order, duplicates kept.
C1_DiscoverReturnsBillLinks ==
    pc = "discovered" => bill_urls = SelectSeq(page.hrefs, TrailingIsBill)

C1_Witness ==
    /\ pc = "discovered"
    /\ page.hrefs = <<uSB20, uHCR12, uSB20>>
    /\ bill_urls = <<uSB20, uSB20>>

\* C2: in every record scrape_chamber yields, lower_votes is the length of
\* lower and upper_votes is the length of upper.
C2_CountsMatchLists ==
    /\ \A k \in 1..Len(bill_votes) :
          /\ bill_votes[k].lower_votes = Len(bill_votes[k].lower)
          /\ bill_votes[k].upper_votes = Len(bill_votes[k].upper)
    /\ pc = "w_row" =>
          /\ row.lower_votes = Len(row.lower)
          /\ row.upper_votes = Len(row.upper)

C2_Witness ==
    /\ pc = "w_row"
    /\ row.bill = <<"S", "B", "2", "0">>
    /\ row.lower_votes = 1 /\ row.upper_votes = 2
    /\ Len(bill_votes) = 2

\* C3: write_data writes lower_votes + upper_votes data rows for a record in
\* full mode and exactly one data row for a record in summary mode, each
\* carrying the record's bill id.
C3_RowsPerRecord ==
    [][pc = "w_row" /\ pc' = "w_next" =>
          /\ Len(file') - Len(file) = IF full THEN row.lower_votes + row.upper_votes ELSE 1
          /\ \A k \in (Len(file) + 1)..Len(file') :
                /\ file'[k].kind = IF full THEN "full" ELSE "summary"
                /\ file'[k].bill_id = row.bill]_vars

C3_Witness ==
    /\ pc = "w_next"
    /\ full
    /\ gi = 2
    /\ row.bill = <<"S", "B", "2", "0">>
    /\ Len(file) = 1 + 1 + 3

NumHeaders(f) == Cardinality({k \in 1..Len(f) : IsHeader(f[k])})

\* C4: write_data only appends: what the destination held stays in place,
\* each invocation adds one header row and its data rows, so after k
\* invocations the file holds k header rows and all data rows written.
C4_AppendOnly ==
    [][/\ IsPrefix(file, file')
       /\ NumHeaders(file') = w_calls'
       /\ Len(file') = w_calls' + w_rows']_vars

C4_Witness ==
    /\ pc = "done"
    /\ w_calls = 2
    /\ Len(file) = 2 + 1 + 3
    /\ NumHeaders(file) = 2
    /\ file[1] = HeaderSummary
    /\ file[3] = HeaderFull

\* C5: one call of lxmlize issues at most two GET requests; a second request
\* is made only after a certificate or connection failure of the first, and
\* then always; when the second fails too, that failure leaves the call and
\* no document is returned.
C5_RetryAtMostOnce ==
    /\ Len(lx_log) <= 2
    /\ Len(lx_log) = 2 => lx_log[1] \in {"SSLError", "ConnectionError"}
    /\ (lx_pc \in {"got", "returned", "raised"} /\ lx_log[1] \in {"SSLError", "ConnectionError"})
          => Len(lx_log) = 2
    /\ (Len(lx_log) = 2 /\ lx_log[2] # "ok")
          => /\ lx_pc = "raised"
             /\ lx_exc = lx_log[2]
             /\ page = NoPage
             /\ response = NoResponse

C5_Witness ==
    /\ lx_pc = "raised"
    /\ lx_log = <<"ConnectionError", "SSLError">>
    /\ lx_exc = "SSLError"

RetryNotice == "Request limit exceeded. Waiting 10 seconds."

\* C6: a connection error whose retry succeeds does not show in the output:
\* a first connection error alone never leaves lxmlize, the document returned
\* after a retry is the one the server serves for the URL, and a run that no
\* network failure ended has written exactly the header and the rows of an
\* undisturbed run over the same bill URLs, whatever retries it made.
C6_RetryTransparent ==
    /\ (lx_pc = "raised" /\ lx_exc = "ConnectionError") => Len(lx_log) = 2
    /\ (lx_pc = "returned" /\ ~IsListingUrl(lx_url)) =>
          \E r \in Served(lx_url) :
              /\ page.hrefs = r.text.hrefs
              /\ page.houvote = r.text.houvote
              /\ page.senvote = r.text.senvote
    /\ (lx_pc = "returned" /\ IsListingUrl(lx_url)) =>
          /\ Len(page.hrefs) <= LinkCap
          /\ Range(page.hrefs) \subseteq SiteHrefs
          /\ page.houvote = <<>> /\ page.senvote = <<>>
    /\ (entry = "call" /\ Terminated /\ w_calls > 0 /\ err \notin NetworkErrors) =>
          /\ file = <<Headers(full)>> \o RowsOf(RecordsOf(bill_urls), full)
          /\ pc = "done" <=> \A k \in 1..Len(bill_urls) : ~Broken(bill_urls[k])

C6_Witness ==
    /\ entry = "call"
    /\ pc = "done"
    /\ bill_urls = <<uHB1, uSB20>>
    /\ full
    /\ Len(SelectSeq(out, LAMBDA m : m = RetryNotice)) = 2
    /\ file = <<HeaderFull>> \o RowsOf(RecordsOf(bill_urls), TRUE)
    /\ Len(file) = 5

PhaseMessages == {"Starting...", "Getting", "Found", "Scraping", "Finished."}
Phases(o) == SelectSeq(o, LAMBDA m : m \in PhaseMessages)

\* C7: a run started through main that no network or extraction failure ends
\* goes through discovery, scraping and writing in this order and ends with
\* the 'Finished.' report.
C7_MainRunsPhasesInOrder ==
    (entry = "main" /\ Terminated /\ err \notin NetworkErrors \cup {"IndexError", "ParserError"})
        => /\ pc = "done"
           /\ Phases(out) = <<"Starting...", "Getting", "Found", "Scraping", "Finished.">>
           /\ w_calls > 0

C9_MissingFieldAborts ==
    entry = "call" =>
        /\ \A k \in 1..(gi - 1) : ~Broken(bill_urls[k])
        /\ \A k \in 1..Len(bill_votes) : ~HasBadRow(bill_urls[k])
        /\ pc = "done" => \A k \in 1..Len(bill_urls) : ~HasBadRow(bill_urls[k])
        /\ (pc = "error" /\ err = "IndexError") =>
              /\ HasBadRow(bill_urls[gi])
              /\ Len(bill_votes) = gi - 1
              /\ file = <<Headers(full)>> \o RowsOf(bill_votes, full)
              /\ lx_pc = "idle"

C9_Witness ==
    /\ entry = "call"
    /\ pc = "error" /\ err = "IndexError"
    /\ bill_urls = <<uHB1, uHB3, uSB20>>
    /\ gi = 2
    /\ ~full
    /\ Len(file) = 2

\* C10: when a call of lxmlize that obtained a response ends, the response is
\* closed, and a document handed to the caller is parsed and link-resolved.
C10_ResponseClosed ==
    /\ (lx_pc \in {"returned", "raised"} /\ response.state # "none") => response.state = "closed"
    /\ lx_pc = "returned" => page.parsed /\ page.resolved

====
